---------------------------- MODULE Spec2Model ----------------------------
(***************************************************************************)
(* A model of the weather logger sketch src/weatherMain.ino: setup(), the  *)
(* polling loop(), logData() and the helpers they call, together with the  *)
(* hardware the sketch talks to (millisecond clock, SD card, DHT and       *)
(* MPL115A2 sensors, real-time clock, push button, LCD).                   *)
(*                                                                         *)
(* Numbers.  A uint32_t value u is carried as the integer congruent to u   *)
(* modulo 2^32 that lies in -2^31 .. 2^31-1 (its two's-complement bit      *)
(* pattern): TLC integers are 32 bits wide, so 2^32 cannot be written.     *)
(* 4294967295 is carried as -1, and the clock wrapping from 2^32-1 to 0 is *)
(* the step from -1 to 0.  A float is carried in hundredths (45.2 is       *)
(* 4520); NaN is the value NaN.  Float rounding error is not modelled.     *)
(***************************************************************************)
EXTENDS Integers, Sequences, FiniteSets, TLC

(***************************************************************************)
(* Program constants.                                                      *)
(***************************************************************************)
LOG_INTERVAL == 2000
SYNC_INTERVAL == 20000
NumNames == 100
AvgWindow == 10
NumModes == 3
AvgDwell == 2000
Debounce == 300
MaxInt32 == 2147483647
NaN == -1

Header == "millis,stamp,datetime,humidity,temp,pressure"

(***************************************************************************)
(* Bounds of the model.                                                    *)
(***************************************************************************)
BootHorizon == 4500
SteadyHorizon == 44500
AvgHorizon == 22500
WrapHorizon == 28500
MaxRuns == 2
MaxJitter == 1
MaxPresses == 1

(***************************************************************************)
(* uint32_t arithmetic on the two's-complement carrier.                    *)
(***************************************************************************)
\* a + d modulo 2^32, for 0 <= d.
U32Add(a, d) ==
    IF a > MaxInt32 - d
    THEN (((a - MaxInt32) + (d - 1)) - MaxInt32) - 1
    ELSE a + d

\* a - b modulo 2^32: the unsigned subtraction of loop().
U32Sub(a, b) ==
    IF b < 0 /\ a > MaxInt32 + b
    THEN (((a - MaxInt32) - (b + 1)) - MaxInt32) - 1
    ELSE IF b > 0 /\ a < (b - MaxInt32) - 1
    THEN ((a + MaxInt32) - (b - 1)) + MaxInt32 + 1
    ELSE a - b

\* unsigned x >= k, for a constant 0 <= k < 2^31.
U32Ge(x, k) == x < 0 \/ x >= k

\* unsigned a <= b.
U32Le(a, b) ==
    IF (a < 0) = (b < 0) THEN a <= b ELSE a >= 0

(***************************************************************************)
(* Text rendering: Print::print of the Arduino core and printf.            *)
(***************************************************************************)
Pad(n, width) ==
    IF width = 5 /\ n < 10 THEN "0000" \o ToString(n)
    ELSE IF width = 5 /\ n < 100 THEN "000" \o ToString(n)
    ELSE IF width = 5 /\ n < 1000 THEN "00" \o ToString(n)
    ELSE IF width = 5 /\ n < 10000 THEN "0" \o ToString(n)
    ELSE IF width = 2 /\ n < 10 THEN "0" \o ToString(n)
    ELSE ToString(n)

\* print(uint32_t): the unsigned decimal numeral.  For a carrier s < 0 the
\* value is 4294967295 - n with n = -(s+1), computed in two decimal limbs.
PrintU32(s) ==
    IF s >= 0 THEN ToString(s)
    ELSE LET n == -(s + 1)
             lo == 67295 - (n % 100000)
             borrow == IF lo < 0 THEN 1 ELSE 0
             hi == (42949 - (n \div 100000)) - borrow
         IN ToString(hi) \o Pad(lo + borrow * 100000, 5)

\* print(float): two decimals, the default of Print::print(double, int = 2).
PrintFloat(v) ==
    IF v = NaN THEN "nan"
    ELSE ToString(v \div 100) \o "." \o Pad(v % 100, 2)

\* printf("%.1f", total / count) for count > 0: one decimal, rounded.
PrintAvg(total, count) ==
    LET tenths == (2 * total + 10 * count) \div (20 * count)
    IN ToString(tenths \div 10) \o "." \o ToString(tenths % 10)

\* printf("%.1f", v).
PrintF1(v) == IF v = NaN THEN "nan" ELSE PrintAvg(v, 1)

daysOfTheWeek == <<"Sun", "Mon", "Tue", "Wed", "Thu", "Fri", "Sat">>
monthsOfTheYear ==
    <<"Jan", "Feb", "Mar", "Apr", "May", "Jun",
      "Jul", "Aug", "Sep", "Oct", "Nov", "Dec">>

\* The name createLogFile builds for index i: "LOGGERnn.CSV".
FileName(i) ==
    "LOGGER" \o ToString(i \div 10) \o ToString(i % 10) \o ".CSV"

(***************************************************************************)
(* State.                                                                  *)
(***************************************************************************)
VARIABLES
    pc,                 \* the statement the sketch is at
    lastLogTime,        \* static uint32_t of loop()
    syncTime,           \* static uint32_t of loop()
    humidity,           \* global float
    temperatureF,       \* global float
    pressureKPA,        \* global float
    totalHumidity,      \* global float
    totalTemperature,   \* global float
    totalPressure,      \* global float
    readingsCount,      \* global int
    m,                  \* local uint32_t of logData()
    now,                \* local DateTime of logData()
    displayMode,        \* static int of toggleDisplayMode()
    logfile,            \* global File: open?, name, text written through it
    lcd,                \* the four rows of the display
    clock,              \* what millis() returns
    card,               \* the SD card: file name -> durable content
    button,             \* level of buttonPin
    env,                \* the scenario: input sets and horizon of the run
    run,                \* number of the current process run on this card
    jit,                \* clock ticks between statements taken so far
    presses,            \* button presses so far
    obs                 \* observations of the run (history, ghost)

prog == <<pc, lastLogTime, syncTime, humidity, temperatureF, pressureKPA,
          totalHumidity, totalTemperature, totalPressure, readingsCount,
          m, now, displayMode, logfile, lcd>>
vars == <<pc, lastLogTime, syncTime, humidity, temperatureF, pressureKPA,
          totalHumidity, totalTemperature, totalPressure, readingsCount,
          m, now, displayMode, logfile, lcd, clock, card, button, env, run,
          jit, presses, obs>>

Sums == <<totalHumidity, totalTemperature, totalPressure, readingsCount>>

EmptyFile == [lines |-> <<>>, part |-> ""]
ClosedFile == [open |-> FALSE, name |-> "", data |-> EmptyFile]
NoTime == [unix |-> 0, year |-> 0, month |-> 0, day |-> 0, hour |-> 0,
           minute |-> 0, second |-> 0, dow |-> 0]
BlankLcd == [r \in 0..3 |-> ""]

\* File::print(text) and File::println(): nothing on a file that is not open.
FilePrint(f, text) ==
    IF f.open THEN [f EXCEPT !.data.part = @ \o text] ELSE f
FilePrintln(f, text) ==
    IF f.open
    THEN [f EXCEPT !.data = [lines |-> Append(@.lines, @.part \o text),
                             part |-> ""]]
    ELSE f

(***************************************************************************)
(* Inputs of a scenario.                                                   *)
(***************************************************************************)
Time1 == [unix |-> 1700000000, year |-> 2023, month |-> 11, day |-> 14,
          hour |-> 10, minute |-> 0, second |-> 0, dow |-> 2]
Time2 == [unix |-> 1700047523, year |-> 2023, month |-> 11, day |-> 15,
          hour |-> 11, minute |-> 25, second |-> 23, dow |-> 3]
Sample1 == <<4520, 7230, 10130>>
Sample2 == <<5067, 6808, 9985>>

\* A file a previous run left on the card.
PriorFile ==
    [lines |-> <<Header, "2000, 1700000000, \"2023/11/14 10:0:0\", 45.20, 72.30, 101.30">>,
     part |-> ""]
CardWith(S) == [n \in {FileName(i) : i \in S} |-> PriorFile]
ExistingSets ==
    {0 .. (n - 1) : n \in {0, 5, NumNames - 1, NumNames}} \cup {{1}, {0, 2}}

BootEnv ==
    [name |-> "boot", t0 |-> 0, horizon |-> BootHorizon, setup |-> {0, 500},
     poll |-> {}, jitter |-> 0, presses |-> 0,
     samples |-> {Sample1, Sample2}, rtc |-> {Time1, Time2}, runs |-> MaxRuns]
PanelEnv ==
    [name |-> "panel", t0 |-> 0, horizon |-> BootHorizon, setup |-> {0, 500},
     poll |-> {1000}, jitter |-> MaxJitter, presses |-> MaxPresses,
     samples |-> {Sample1}, rtc |-> {Time1}, runs |-> 1]
SteadyEnv ==
    [name |-> "steady", t0 |-> 0, horizon |-> SteadyHorizon,
     setup |-> {500, 2300}, poll |-> {}, jitter |-> MaxJitter, presses |-> 0,
     samples |-> {Sample1}, rtc |-> {Time1}, runs |-> 1]
RestartEnv ==
    [name |-> "restart", t0 |-> 0, horizon |-> SteadyHorizon, setup |-> {500},
     poll |-> {}, jitter |-> 0, presses |-> 0,
     samples |-> {Sample1}, rtc |-> {Time1}, runs |-> MaxRuns]
AvgEnv ==
    [name |-> "avg", t0 |-> 0, horizon |-> AvgHorizon, setup |-> {500},
     poll |-> {}, jitter |-> 0, presses |-> 0,
     samples |-> {Sample1, Sample2}, rtc |-> {Time1}, runs |-> 1]

NoObs ==
    [recs |-> <<>>,      \* per complete record: m, lastLogTime, clock, wraps
     flushes |-> <<>>,   \* per flush() call: syncTime mark and clock at the call
     samples |-> <<>>,   \* the valid samples read, oldest first
     shown |-> 0,        \* times displayAverages ran
     wraps |-> 0,        \* times the clock wrapped to 0
     up |-> 0,           \* ms this run has been running, counted without wrap
     logAt |-> 0,        \* up when lastLogTime was set
     syncAt |-> 0,       \* up when syncTime was set
     created |-> 0,      \* files this run created
     pre |-> [data |-> EmptyFile, sums |-> <<0, 0, 0, 0>>, card |-> <<>>],
                         \* log content, sums, card when the current cycle began
     cycles |-> 0,       \* log cycles in the current loop iteration
     elapsed |-> 0,      \* millis() - lastLogTime as this iteration's check saw it
     checked |-> 0,      \* clock when the sync section last completed
     cardAtBoot |-> <<>>,\* the card when this run began
     marks |-> <<>>,     \* the lastLogTime marks of the log cycles, oldest first
     startup |-> [sd |-> "untested", mpl |-> "untested",
                  present |-> "untested", running |-> "untested"],
                         \* what each startup check of this run found
     adjusts |-> 0,      \* calls of rtc.adjust
     toggles |-> 0,      \* calls of toggleDisplayMode
     halt |-> ""]        \* message of error(), once called

ProgInit ==
    /\ pc = "setup"
    /\ lastLogTime = 0
    /\ syncTime = 0
    /\ humidity = 0
    /\ temperatureF = 0
    /\ pressureKPA = 0
    /\ totalHumidity = 0
    /\ totalTemperature = 0
    /\ totalPressure = 0
    /\ readingsCount = 0
    /\ m = 0
    /\ now = NoTime
    /\ displayMode = 0
    /\ logfile = ClosedFile
    /\ lcd = BlankLcd

InitWith(e, cards) ==
    /\ ProgInit
    /\ clock = e.t0
    /\ card \in cards
    /\ button = "HIGH"
    /\ env = e
    /\ run = 1
    /\ jit = 0
    /\ presses = 0
    /\ obs = [NoObs EXCEPT !.cardAtBoot = card]

\* Power-on with some files of earlier runs on the card; the samples and the
\* time vary, and power may be cut and restored.
InitBoot == InitWith(BootEnv, {CardWith(S) : S \in ExistingSets})

\* Power-on with an empty card: the button is used, the loop is polled early
\* and the clock ticks between statements.
InitPanel == InitWith(PanelEnv, {CardWith({})})

\* Power-on with an empty card: a long run with one sample value, in which
\* the clock ticks between statements.
InitSteady == InitWith(SteadyEnv, {CardWith({})})

\* Power-on with an empty card: long runs with flushes, power cut and restored.
InitRestart == InitWith(RestartEnv, {CardWith({})})

\* Power-on with an empty card: one averaging window with varying samples.
InitAvg == InitWith(AvgEnv, {CardWith({})})

\* A run 4294956000 ms after power-on, at the head of loop(): the run from
\* an empty card in which setup() returns within 2000 ms, every sample is
\* Sample1, the clock never ticks between two statements and the button is
\* never pressed.  That run logs record k at 2000 * k ms and flushes at
\* 20000 * j + 2000 ms; here record 2147478 was just logged, eight records
\* into the averaging window, and the last flush was at 4294942000 ms.  The
\* file and the observations hold the current window only: the 2147470
\* records before it are left out.
WarmClock == -11296
WarmSync == -25296
WarmRecs ==
    [i \in 1 .. 8 |->
        [m |-> WarmSync + LOG_INTERVAL * (i - 1),
         mark |-> WarmSync + LOG_INTERVAL * (i - 1),
         at |-> WarmSync + LOG_INTERVAL * (i - 1), wraps |-> 0]]
WarmLine(i) ==
    PrintU32(WarmRecs[i].m) \o ", " \o ToString(Time1.unix) \o ", \""
        \o "2023/11/14 10:0:0" \o "\", " \o "45.20, 72.30, 101.30"
WarmData(n) == [lines |-> <<Header>> \o [i \in 1 .. n |-> WarmLine(i)],
                part |-> ""]
WrapEnv ==
    [name |-> "wrap", t0 |-> WarmClock, horizon |-> WrapHorizon,
     setup |-> {}, poll |-> {1000, 1500}, jitter |-> MaxJitter,
     presses |-> 0, samples |-> {Sample1}, rtc |-> {Time1}, runs |-> 1]
InitWrap ==
    /\ pc = "logCheck"
    /\ lastLogTime = WarmClock
    /\ syncTime = WarmSync
    /\ humidity = Sample1[1]
    /\ temperatureF = Sample1[2]
    /\ pressureKPA = Sample1[3]
    /\ totalHumidity = 8 * Sample1[1]
    /\ totalTemperature = 8 * Sample1[2]
    /\ totalPressure = 8 * Sample1[3]
    /\ readingsCount = 8
    /\ m = WarmClock
    /\ now = Time1
    /\ displayMode = 0
    /\ logfile = [open |-> TRUE, name |-> FileName(0), data |-> WarmData(8)]
    /\ lcd = [BlankLcd EXCEPT ![0] = "Avg Hum: 45.2%",
                              ![1] = "Tue Nov 14  10:00:00",
                              ![2] = "H: 45.2% Temp: 72.3F",
                              ![3] = "Press: 101.3 kPa"]
    /\ clock = WarmClock
    /\ card = (FileName(0) :> WarmData(0))
    /\ button = "HIGH"
    /\ env = WrapEnv
    /\ run = 1
    /\ jit = 0
    /\ presses = 0
    /\ obs = [NoObs EXCEPT
                !.recs = WarmRecs,
                !.marks = [i \in 1 .. 8 |-> WarmRecs[i].m],
                !.flushes = <<[mark |-> WarmSync, at |-> WarmSync]>>,
                !.samples = [i \in 1 .. 8 |-> Sample1],
                !.created = 1,
                !.pre = [data |-> WarmData(7),
                         sums |-> <<7 * Sample1[1], 7 * Sample1[2],
                                    7 * Sample1[3], 7>>,
                         card |-> (FileName(0) :> WarmData(0))],
                !.cycles = 1,
                !.elapsed = LOG_INTERVAL,
                !.checked = WarmClock,
                !.syncAt = WarmSync - WarmClock,
                !.startup = [sd |-> "ok", mpl |-> "ok", present |-> "ok",
                             running |-> "ok"],
                !.cardAtBoot = CardWith({})]

Init ==
    InitBoot \/ InitPanel \/ InitSteady \/ InitRestart \/ InitAvg \/ InitWrap

(***************************************************************************)
(* The clock.  Time passes only where the model says so: before a read of  *)
(* millis(), while setup() runs, and inside delay().                       *)
(***************************************************************************)
Elapsed == U32Sub(clock, env.t0)
CanAdvance(d) == Elapsed + d <= env.horizon
Wrapped(d) == IF clock < 0 /\ U32Add(clock, d) >= 0 THEN 1 ELSE 0

\* The clock may tick once between two statements, MaxJitter times a run.
JitterChoices == IF jit < env.jitter THEN {0, 1} ELSE {0}

Last(s) == s[Len(s)]

(***************************************************************************)
(* error(): message on the display, then while (1).                        *)
(***************************************************************************)
ErrorLcd(str) == [BlankLcd EXCEPT ![0] = "Error: " \o str]

\* error() without its endless loop: the caller carries on.
ErrorReturns(next) == next

\* Where control is after error(str) was called from a statement followed by
\* next: error() ends in while (1), so it never returns.
Error(next) == "halted"

(***************************************************************************)
(* setup()                                                                 *)
(***************************************************************************)
SetupSD ==
    /\ pc = "setup"
    /\ \E ok \in BOOLEAN :
          IF ok
          THEN /\ lcd' = [BlankLcd EXCEPT ![0] = "   Weather Logger" \o "SD Card OK"]
               /\ pc' = "createLogFile"
               /\ obs' = [obs EXCEPT !.startup.sd = "ok"]
          ELSE /\ lcd' = ErrorLcd("SD Card failed")
               /\ pc' = Error("createLogFile")
               /\ obs' = [obs EXCEPT !.halt = "SD Card failed",
                                     !.startup.sd = "fail"]
    /\ UNCHANGED <<lastLogTime, syncTime, humidity, temperatureF, pressureKPA,
                   totalHumidity, totalTemperature, totalPressure,
                   readingsCount, m, now, displayMode, logfile, clock, card,
                   button, env, run, jit, presses>>

\* The probe without the SD.exists test: the first name is always taken.
ProbeFirst(i) == i

\* The probe with the loop bound one short: index NumNames - 1 is never tried.
RECURSIVE ProbeShort(_)
ProbeShort(i) ==
    IF i >= NumNames - 1 THEN NumNames
    ELSE IF FileName(i) \notin DOMAIN card THEN i
    ELSE IF i + 10 <= NumNames - 1
            /\ \A k \in i .. i + 9 : FileName(k) \in DOMAIN card
    THEN ProbeShort(i + 10)
    ELSE ProbeShort(i + 1)

\* The for loop of createLogFile from index i on: the first index whose name
\* does not exist on the card, NumNames when there is none.  Ten iterations
\* that all find their name on the card are taken in one step of the
\* recursion, which gives the same index.
RECURSIVE Probe(_)
Probe(i) ==
    IF i >= NumNames THEN NumNames
    ELSE IF FileName(i) \notin DOMAIN card THEN i
    ELSE IF i + 10 <= NumNames
            /\ \A k \in i .. i + 9 : FileName(k) \in DOMAIN card
    THEN Probe(i + 10)
    ELSE Probe(i + 1)

\* SD.open(name, FILE_WRITE): creates the file when it is missing (the new
\* directory entry is written to the card at once), opens it at its end.
SdOpen(name) ==
    [open |-> TRUE, name |-> name,
     data |-> IF name \in DOMAIN card THEN card[name] ELSE EmptyFile]
SdCreate(name) ==
    IF name \in DOMAIN card THEN card ELSE card @@ (name :> EmptyFile)

createLogFile ==
    /\ pc = "createLogFile"
    /\ LET i == Probe(0)
       IN IF i < NumNames
          THEN /\ logfile' = SdOpen(FileName(i))
               /\ card' = SdCreate(FileName(i))
               /\ obs' = [obs EXCEPT !.created =
                             @ + (IF FileName(i) \in DOMAIN card THEN 0 ELSE 1)]
               /\ pc' = "sensors"
               /\ lcd' = lcd
          ELSE /\ lcd' = ErrorLcd("Couldn't create file")
               /\ pc' = Error("sensors")
               /\ obs' = [obs EXCEPT !.halt = "Couldn't create file"]
               /\ UNCHANGED <<logfile, card>>
    /\ UNCHANGED <<lastLogTime, syncTime, humidity, temperatureF, pressureKPA,
                   totalHumidity, totalTemperature, totalPressure,
                   readingsCount, m, now, displayMode, clock, button, env,
                   run, jit, presses>>

SetupSensors ==
    /\ pc = "sensors"
    /\ \E ok \in BOOLEAN :
          IF ok
          THEN /\ pc' = "rtc"
               /\ lcd' = lcd
               /\ obs' = [obs EXCEPT !.startup.mpl = "ok"]
          ELSE /\ lcd' = ErrorLcd("MPL115A2 failed")
               /\ pc' = Error("rtc")
               /\ obs' = [obs EXCEPT !.halt = "MPL115A2 failed",
                                     !.startup.mpl = "fail"]
    /\ UNCHANGED <<lastLogTime, syncTime, humidity, temperatureF, pressureKPA,
                   totalHumidity, totalTemperature, totalPressure,
                   readingsCount, m, now, displayMode, logfile, clock, card,
                   button, env, run, jit, presses>>

\* The RTC test with && for ||.
RtcFailsBoth(present, running) == ~present /\ ~running

\* !rtc.begin() || !rtc.isrunning()
RtcFails(present, running) == ~present \/ ~running

Found(b) == IF b THEN "ok" ELSE "fail"

\* The RTC check: rtc.begin() tells whether the chip is present,
\* rtc.isrunning() whether its oscillator runs; a stopped clock is set once
\* with rtc.adjust before error() is called.
SetupRTC ==
    /\ pc = "rtc"
    /\ \E present \in BOOLEAN, running \in BOOLEAN :
          IF RtcFails(present, running)
          THEN /\ lcd' = ErrorLcd("RTC failed")
               /\ pc' = Error("header")
               /\ obs' = [obs EXCEPT !.halt = "RTC failed",
                                     !.startup.present = Found(present),
                                     !.startup.running = Found(running),
                                     !.adjusts = @ + (IF running THEN 0 ELSE 1)]
          ELSE /\ pc' = "header"
               /\ lcd' = lcd
               /\ obs' = [obs EXCEPT !.startup.present = Found(present),
                                     !.startup.running = Found(running)]
    /\ UNCHANGED <<lastLogTime, syncTime, humidity, temperatureF, pressureKPA,
                   totalHumidity, totalTemperature, totalPressure,
                   readingsCount, m, now, displayMode, logfile, clock, card,
                   button, env, run, jit, presses>>

\* The header line; setup() returns d ms after power-on.
WriteHeader ==
    /\ pc = "header"
    /\ logfile' = FilePrintln(logfile, Header)
    /\ \E d \in env.setup :
          /\ CanAdvance(d)
          /\ clock' = U32Add(clock, d)
          /\ obs' = [obs EXCEPT !.wraps = @ + Wrapped(d),
                                !.up = @ + d]
    /\ pc' = "logCheck"
    /\ UNCHANGED <<lastLogTime, syncTime, humidity, temperatureF, pressureKPA,
                   totalHumidity, totalTemperature, totalPressure,
                   readingsCount, m, now, displayMode, lcd, card, button, env,
                   run, jit, presses>>

Setup == SetupSD \/ createLogFile \/ SetupSensors \/ SetupRTC \/ WriteHeader


(***************************************************************************)
(* loop()                                                                  *)
(***************************************************************************)
\* The log check without the mark subtracted.
LogDueNoMark(t) == U32Ge(t, LOG_INTERVAL)

\* The log check with > for >=.
LogDueStrict(t) == U32Ge(U32Sub(t, lastLogTime), LOG_INTERVAL + 1)

\* The log check against a deadline: millis() >= lastLogTime + LOG_INTERVAL.
LogDueDeadline(t) == U32Le(U32Add(lastLogTime, LOG_INTERVAL), t)

\* millis() - lastLogTime >= LOG_INTERVAL, with millis() = t.
LogDue(t) == U32Ge(U32Sub(t, lastLogTime), LOG_INTERVAL)

\* The sync check without the mark subtracted.
SyncDueNoMark(t) == U32Ge(t, SYNC_INTERVAL)

\* millis() - syncTime >= SYNC_INTERVAL, with millis() = t.
SyncDue(t) == U32Ge(U32Sub(t, syncTime), SYNC_INTERVAL)

\* loop() is called again and again.  An iteration that finds nothing due and
\* the button released changes nothing, so the model goes from one iteration
\* to the next one of interest: the one at the instant the next check falls
\* due (at once when one is overdue), that instant one tick late, or an
\* earlier one from the scenario's poll set.  While the button is held LOW
\* no iteration is idle: the next one follows the debounce delay at once.
Remaining(t, mark, interval) ==
    IF U32Ge(U32Sub(t, mark), interval) THEN 0
    ELSE interval - U32Sub(t, mark)
NextDue ==
    LET a == Remaining(clock, lastLogTime, LOG_INTERVAL)
        b == Remaining(clock, syncTime, SYNC_INTERVAL)
    IN IF a <= b THEN a ELSE b
PollChoices ==
    IF button = "LOW"
    THEN {<<j, j>> : j \in JitterChoices}
    ELSE {<<NextDue + j, j>> : j \in JitterChoices}
             \cup {<<d, 0>> : d \in {p \in env.poll : p < NextDue}}

\* if (millis() - lastLogTime >= LOG_INTERVAL)
LoopLogCheck ==
    /\ pc = "logCheck"
    /\ \E c \in PollChoices :
          /\ CanAdvance(c[1])
          /\ clock' = U32Add(clock, c[1])
          /\ jit' = jit + c[2]
          /\ pc' = IF LogDue(clock') THEN "logMark" ELSE "syncCheck"
          /\ obs' = [obs EXCEPT !.wraps = @ + Wrapped(c[1]),
                                !.up = @ + c[1],
                                !.cycles = 0,
                                !.elapsed = U32Sub(clock', lastLogTime)]
    /\ UNCHANGED <<lastLogTime, syncTime, humidity, temperatureF, pressureKPA,
                   totalHumidity, totalTemperature, totalPressure,
                   readingsCount, m, now, displayMode, logfile, lcd, card,
                   button, env, run, presses>>

\* lastLogTime = millis();
LoopLogMark ==
    /\ pc = "logMark"
    /\ \E j \in JitterChoices :
          /\ CanAdvance(j)
          /\ clock' = U32Add(clock, j)
          /\ jit' = jit + j
          /\ lastLogTime' = clock'
          /\ obs' = [obs EXCEPT !.wraps = @ + Wrapped(j),
                                !.up = @ + j,
                                !.logAt = obs.up + j,
                                !.cycles = @ + 1,
                                !.marks = Append(@, clock'),
                                !.pre = [data |-> logfile.data, sums |-> Sums,
                                         card |-> card]]
    /\ pc' = "logData"
    /\ UNCHANGED <<syncTime, humidity, temperatureF, pressureKPA,
                   totalHumidity, totalTemperature, totalPressure,
                   readingsCount, m, now, displayMode, logfile, lcd, card,
                   button, env, run, presses>>

(***************************************************************************)
(* logData()                                                               *)
(***************************************************************************)
\* The text of the time fields, as the print calls of lines 143-158 build it.
TimeFields(ms, t) ==
    PrintU32(ms) \o ", " \o ToString(t.unix) \o ", \""
        \o ToString(t.year) \o "/" \o ToString(t.month) \o "/"
        \o ToString(t.day) \o " " \o ToString(t.hour) \o ":"
        \o ToString(t.minute) \o ":" \o ToString(t.second) \o "\", "

\* The sensor fields with the temperature printed first.
SensorFieldsSwapped(h, t, p) ==
    PrintFloat(t) \o ", " \o PrintFloat(h) \o ", " \o PrintFloat(p)

\* The text of the sensor fields, lines 164-168.
SensorFields(h, t, p) ==
    PrintFloat(h) \o ", " \o PrintFloat(t) \o ", " \o PrintFloat(p)

\* The time since the mark logged in place of the clock.
StampSinceMark(t) == U32Sub(t, lastLogTime)

\* uint32_t m = millis(), with millis() = t.
Stamp(t) == t

\* m = millis(); now = rtc.now(); the time fields are printed.
LogTime ==
    /\ pc = "logData"
    /\ \E j \in JitterChoices, t \in env.rtc :
          /\ CanAdvance(j)
          /\ clock' = U32Add(clock, j)
          /\ jit' = jit + j
          /\ m' = Stamp(clock')
          /\ now' = t
          /\ logfile' = FilePrint(logfile, TimeFields(m', now'))
          /\ obs' = [obs EXCEPT !.wraps = @ + Wrapped(j),
                                !.up = @ + j]
    /\ pc' = "readSensors"
    /\ UNCHANGED <<lastLogTime, syncTime, humidity, temperatureF, pressureKPA,
                   totalHumidity, totalTemperature, totalPressure,
                   readingsCount, displayMode, lcd, card, button, env, run,
                   presses>>

\* What the two sensors can return in one cycle: a valid sample, or NaN for
\* the humidity or for the temperature.
Readings ==
    env.samples \cup {<<NaN, Sample1[2], Sample1[3]>>,
                      <<Sample1[1], NaN, Sample1[3]>>}

readSensors ==
    /\ pc = "readSensors"
    /\ \E s \in Readings :
          /\ humidity' = s[1]
          /\ temperatureF' = s[2]
          /\ IF s[1] = NaN \/ s[2] = NaN
             THEN /\ lcd' = ErrorLcd("Failed to read from DHT sensor")
                  /\ pc' = Error("logSensors")
                  /\ obs' = [obs EXCEPT !.halt = "Failed to read from DHT sensor"]
                  /\ pressureKPA' = pressureKPA
             ELSE /\ pressureKPA' = s[3]
                  /\ pc' = "logSensors"
                  /\ obs' = [obs EXCEPT !.samples = Append(@, s)]
                  /\ lcd' = lcd
    /\ UNCHANGED <<lastLogTime, syncTime, totalHumidity, totalTemperature,
                   totalPressure, readingsCount, m, now, displayMode, logfile,
                   clock, card, button, env, run, jit, presses>>

\* The window test with > for >=.
WindowFullLate(n) == n > AvgWindow

\* The window test one reading early.
WindowFullEarly(n) == n >= AvgWindow - 1

\* if (readingsCount >= 10), with readingsCount = n.
WindowFull(n) == n >= AvgWindow

\* Lines 164-178: the sensor fields and the line end are printed, the sums
\* and the count updated, and the count compared with the window.
LogSensors ==
    /\ pc = "logSensors"
    /\ logfile' = FilePrintln(logfile,
                              SensorFields(humidity, temperatureF, pressureKPA))
    /\ totalHumidity' = totalHumidity + humidity
    /\ totalTemperature' = totalTemperature + temperatureF
    /\ totalPressure' = totalPressure + pressureKPA
    /\ readingsCount' = readingsCount + 1
    /\ pc' = IF WindowFull(readingsCount') THEN "displayAverages"
             ELSE "updateLCD"
    /\ obs' = [obs EXCEPT !.recs = Append(@, [m |-> m, mark |-> lastLogTime,
                                               at |-> clock,
                                               wraps |-> obs.wraps])]
    /\ UNCHANGED <<lastLogTime, syncTime, humidity, temperatureF, pressureKPA,
                   m, now, displayMode, lcd, clock, card, button, env, run,
                   jit, presses>>

\* The three rows displayAverages prints.
AveragesLcd ==
    [BlankLcd EXCEPT
       ![0] = "Avg Hum: " \o PrintAvg(totalHumidity, readingsCount) \o "%",
       ![1] = "Avg Temp: " \o PrintAvg(totalTemperature, readingsCount) \o "F",
       ![2] = "Avg Press: " \o PrintAvg(totalPressure, readingsCount) \o " kPa"]

displayAverages ==
    /\ pc = "displayAverages"
    /\ lcd' = AveragesLcd
    /\ CanAdvance(AvgDwell)
    /\ clock' = U32Add(clock, AvgDwell)
    /\ obs' = [obs EXCEPT !.wraps = @ + Wrapped(AvgDwell),
                          !.up = @ + AvgDwell, !.shown = @ + 1]
    /\ pc' = "resetAverages"
    /\ UNCHANGED <<lastLogTime, syncTime, humidity, temperatureF, pressureKPA,
                   totalHumidity, totalTemperature, totalPressure,
                   readingsCount, m, now, displayMode, logfile, card, button,
                   env, run, jit, presses>>

\* The reset with the count left as it is.
resetAveragesKeepCount ==
    /\ pc = "resetAverages"
    /\ totalHumidity' = 0
    /\ totalTemperature' = 0
    /\ totalPressure' = 0
    /\ pc' = "updateLCD"
    /\ UNCHANGED <<lastLogTime, syncTime, humidity, temperatureF, pressureKPA,
                   readingsCount, m, now, displayMode, logfile, lcd, clock,
                   card, button, env, run, jit, presses, obs>>

resetAverages ==
    /\ pc = "resetAverages"
    /\ totalHumidity' = 0
    /\ totalTemperature' = 0
    /\ totalPressure' = 0
    /\ readingsCount' = 0
    /\ pc' = "updateLCD"
    /\ UNCHANGED <<lastLogTime, syncTime, humidity, temperatureF, pressureKPA,
                   m, now, displayMode, logfile, lcd, clock, card, button,
                   env, run, jit, presses, obs>>

\* Rows 1 to 3 are printed from column 0; the model replaces each row.
updateLCD ==
    /\ pc = "updateLCD"
    /\ lcd' = [lcd EXCEPT
         ![1] = daysOfTheWeek[now.dow + 1] \o " "
                  \o monthsOfTheYear[now.month] \o " " \o Pad(now.day, 2)
                  \o "  " \o Pad(now.hour, 2) \o ":" \o Pad(now.minute, 2)
                  \o ":" \o Pad(now.second, 2),
         ![2] = "H: " \o PrintF1(humidity) \o "% Temp: "
                  \o PrintF1(temperatureF) \o "F",
         ![3] = "Press: " \o PrintF1(pressureKPA) \o " kPa"]
    /\ pc' = "syncCheck"
    /\ UNCHANGED <<lastLogTime, syncTime, humidity, temperatureF, pressureKPA,
                   totalHumidity, totalTemperature, totalPressure,
                   readingsCount, m, now, displayMode, logfile, clock, card,
                   button, env, run, jit, presses, obs>>

LogData ==
    LogTime \/ readSensors \/ LogSensors \/ displayAverages \/ resetAverages
        \/ updateLCD


\* if (millis() - syncTime >= SYNC_INTERVAL)
LoopSyncCheck ==
    /\ pc = "syncCheck"
    /\ \E j \in JitterChoices :
          /\ CanAdvance(j)
          /\ clock' = U32Add(clock, j)
          /\ jit' = jit + j
          /\ pc' = IF SyncDue(clock') THEN "syncMark" ELSE "buttonCheck"
          /\ obs' = [obs EXCEPT !.wraps = @ + Wrapped(j),
                                !.up = @ + j,
                                !.checked = IF SyncDue(clock') THEN @
                                            ELSE clock']
    /\ UNCHANGED <<lastLogTime, syncTime, humidity, temperatureF, pressureKPA,
                   totalHumidity, totalTemperature, totalPressure,
                   readingsCount, m, now, displayMode, logfile, lcd, card,
                   button, env, run, presses>>

\* One timer mark for both checks: the sync mark restarts the log timer too.
LoopSyncMarkResetsLog ==
    /\ pc = "syncMark"
    /\ \E j \in JitterChoices :
          /\ CanAdvance(j)
          /\ clock' = U32Add(clock, j)
          /\ jit' = jit + j
          /\ syncTime' = clock'
          /\ lastLogTime' = clock'
          /\ obs' = [obs EXCEPT !.wraps = @ + Wrapped(j),
                                !.up = @ + j,
                                !.syncAt = obs.up + j]
    /\ pc' = "flush"
    /\ UNCHANGED <<humidity, temperatureF, pressureKPA,
                   totalHumidity, totalTemperature, totalPressure,
                   readingsCount, m, now, displayMode, logfile, lcd, card,
                   button, env, run, presses>>

\* syncTime = millis();
LoopSyncMark ==
    /\ pc = "syncMark"
    /\ \E j \in JitterChoices :
          /\ CanAdvance(j)
          /\ clock' = U32Add(clock, j)
          /\ jit' = jit + j
          /\ syncTime' = clock'
          /\ obs' = [obs EXCEPT !.wraps = @ + Wrapped(j),
                                !.up = @ + j,
                                !.syncAt = obs.up + j]
    /\ pc' = "flush"
    /\ UNCHANGED <<lastLogTime, humidity, temperatureF, pressureKPA,
                   totalHumidity, totalTemperature, totalPressure,
                   readingsCount, m, now, displayMode, logfile, lcd, card,
                   button, env, run, presses>>

\* A flush that writes nothing to the card.
SdFlushDropped(f) == card

\* File::flush(): what was written through the file becomes durable.
SdFlush(f) ==
    IF f.open THEN [card EXCEPT ![f.name] = f.data] ELSE card

\* logfile.flush(); the call starts j ms after syncTime was read.
LoopFlush ==
    /\ pc = "flush"
    /\ \E j \in JitterChoices :
          /\ CanAdvance(j)
          /\ clock' = U32Add(clock, j)
          /\ jit' = jit + j
          /\ obs' = [obs EXCEPT !.wraps = @ + Wrapped(j),
                                !.up = @ + j,
                                !.flushes = Append(@, [mark |-> syncTime,
                                                       at |-> clock']),
                                !.checked = clock']
    /\ card' = SdFlush(logfile)
    /\ pc' = "buttonCheck"
    /\ UNCHANGED <<lastLogTime, syncTime, humidity, temperatureF, pressureKPA,
                   totalHumidity, totalTemperature, totalPressure,
                   readingsCount, m, now, displayMode, logfile, lcd, button,
                   env, run, presses>>

\* The row toggleDisplayMode prints for a mode.
ModeLcd(mode) ==
    [BlankLcd EXCEPT ![0] =
        IF mode = 0 THEN "Humidity: " \o PrintF1(humidity) \o "%"
        ELSE IF mode = 1 THEN "Temp: " \o PrintF1(temperatureF) \o "F"
        ELSE "Pressure: " \o PrintF1(pressureKPA) \o " kPa"]

\* A button check that waits for the release before loop() goes on.
AfterDebounceWaitRelease(b) == IF b = "LOW" THEN "buttonCheck" ELSE "logCheck"

\* Where control is after the button check with the pin reading b: loop()
\* returns and is called again, so the next statement is the log check.
AfterDebounce(b) == "logCheck"

\* if (digitalRead(buttonPin) == LOW) { toggleDisplayMode(); delay(300); }
LoopButton ==
    /\ pc = "buttonCheck"
    /\ IF button = "LOW"
       THEN /\ displayMode' = (displayMode + 1) % NumModes
            /\ lcd' = ModeLcd(displayMode')
            /\ CanAdvance(Debounce)
            /\ clock' = U32Add(clock, Debounce)
            /\ obs' = [obs EXCEPT !.wraps = @ + Wrapped(Debounce),
                                  !.up = @ + Debounce,
                                  !.toggles = @ + 1]
       ELSE UNCHANGED <<displayMode, lcd, clock, obs>>
    /\ pc' = AfterDebounce(button)
    /\ UNCHANGED <<lastLogTime, syncTime, humidity, temperatureF, pressureKPA,
                   totalHumidity, totalTemperature, totalPressure,
                   readingsCount, m, now, logfile, card, button, env, run,
                   jit, presses>>

Loop ==
    LoopLogCheck \/ LoopLogMark \/ LoopSyncCheck \/ LoopSyncMark \/ LoopFlush
        \/ LoopButton

(***************************************************************************)
(* The surroundings: the push button and the power supply.                 *)
(***************************************************************************)
ButtonPress ==
    /\ button = "HIGH"
    /\ presses < env.presses
    /\ button' = "LOW"
    /\ presses' = presses + 1
    /\ UNCHANGED <<prog, clock, card, env, run, jit, obs>>

ButtonRelease ==
    /\ button = "LOW"
    /\ button' = "HIGH"
    /\ UNCHANGED <<prog, clock, card, env, run, jit, presses, obs>>

\* Power is cut and restored: the sketch starts again from its initial state
\* with the clock at 0; the card keeps what was durable.
PowerCycle ==
    /\ run < env.runs
    /\ pc' = "setup"
    /\ lastLogTime' = 0
    /\ syncTime' = 0
    /\ humidity' = 0
    /\ temperatureF' = 0
    /\ pressureKPA' = 0
    /\ totalHumidity' = 0
    /\ totalTemperature' = 0
    /\ totalPressure' = 0
    /\ readingsCount' = 0
    /\ m' = 0
    /\ now' = NoTime
    /\ displayMode' = 0
    /\ logfile' = ClosedFile
    /\ lcd' = BlankLcd
    /\ clock' = 0
    /\ run' = run + 1
    /\ obs' = [NoObs EXCEPT !.cardAtBoot = card]
    /\ UNCHANGED <<card, button, env, jit, presses>>

Environment == ButtonPress \/ ButtonRelease

Program == Setup \/ Loop \/ LogData

Next == Program \/ Environment \/ PowerCycle

Spec == Init /\ [][Next]_vars

\* The processor never stops executing: once in loop(), the next statement
\* of loop() or logData() is always executed.
FairSpec == Spec /\ WF_vars(Loop \/ LogData)

(***************************************************************************)
(* The properties checked.  A step of the surroundings (the button, the    *)
(* power supply) leaves pc as it is or sets it to "setup"; every other     *)
(* step is a step of the sketch.                                           *)
(***************************************************************************)

\* C1: in every iteration of loop() a log cycle runs exactly when the
\* unsigned difference millis() - lastLogTime is at least LOG_INTERVAL: then
\* lastLogTime becomes the current clock value and logData runs once in that
\* iteration; below LOG_INTERVAL no cycle runs and lastLogTime and the log
\* are left as they are, so a poll right after a cycle does not fire again.
C1_LogCycleIffDue ==
    [][/\ (pc = "logCheck" /\ pc' \notin {"logCheck", "setup"}) =>
             IF U32Ge(U32Sub(clock', lastLogTime), LOG_INTERVAL)
             THEN pc' = "logMark"
             ELSE /\ pc' = "syncCheck"
                  /\ lastLogTime' = lastLogTime
                  /\ logfile' = logfile
       /\ (pc = "logMark" /\ pc' \notin {"logMark", "setup"}) =>
             /\ pc' = "logData"
             /\ lastLogTime' = clock'
             /\ obs'.cycles = 1
       /\ (pc' = "logData" /\ pc # "logData") => pc = "logMark"
       /\ (pc = "buttonCheck" /\ pc' = "logCheck") =>
             obs.cycles = IF U32Ge(obs.elapsed, LOG_INTERVAL) THEN 1 ELSE 0
       /\ (lastLogTime' # lastLogTime) => (pc = "logMark" \/ pc' = "setup")
      ]_vars

\* A poll right after a log cycle, no time passed since its mark: no cycle.
C1_Witness ==
    /\ pc = "syncCheck"
    /\ Len(obs.marks) >= 1
    /\ obs.elapsed = 0
    /\ obs.cycles = 0
    /\ lastLogTime = Last(obs.marks)

\* C2: when a sensor read yields NaN the cycle writes nothing of the record
\* to the log file and adds nothing to the sums: at the halt the log content
\* and the sums are what they were when the cycle began.
C2_NoPartialRecord ==
    (pc = "halted" /\ obs.halt = "Failed to read from DHT sensor") =>
        /\ logfile.data = obs.pre.data
        /\ Sums = obs.pre.sums

\* C3: displayAverages runs when AvgWindow samples were added to the empty
\* sums, shows for each quantity the sum of exactly these samples divided by
\* AvgWindow, and the sums and the count are 0 right after, so that the
\* windows of two emissions share no sample.
RECURSIVE SumOf(_, _, _, _)
SumOf(s, k, lo, hi) == IF lo > hi THEN 0 ELSE s[lo][k] + SumOf(s, k, lo + 1, hi)
WindowRows ==
    LET hi == AvgWindow * obs.shown
        lo == hi - AvgWindow + 1
    IN [BlankLcd EXCEPT
          ![0] = "Avg Hum: " \o PrintAvg(SumOf(obs.samples, 1, lo, hi), AvgWindow)
                   \o "%",
          ![1] = "Avg Temp: " \o PrintAvg(SumOf(obs.samples, 2, lo, hi), AvgWindow)
                   \o "F",
          ![2] = "Avg Press: " \o PrintAvg(SumOf(obs.samples, 3, lo, hi), AvgWindow)
                   \o " kPa"]
C3_WindowAverages ==
    [][/\ (pc = "displayAverages") => readingsCount = AvgWindow
       /\ (pc = "resetAverages") =>
             /\ Len(obs.samples) = AvgWindow * obs.shown
             /\ lcd = WindowRows
       /\ (pc = "resetAverages" /\ pc' = "updateLCD") =>
             /\ totalHumidity' = 0
             /\ totalTemperature' = 0
             /\ totalPressure' = 0
             /\ readingsCount' = 0
      ]_vars

\* Averages on the display of a window in which the samples differ.
C3_Witness ==
    /\ pc = "resetAverages"
    /\ obs.shown = 1
    /\ \E i, j \in 1 .. AvgWindow : obs.samples[i] # obs.samples[j]
    /\ lcd[0] # "Avg Hum: 45.2%"

\* C4: createLogFile opens the file LOGGERnn.CSV with the smallest nn in
\* 00..99 whose name is not on the card (LOGGER05.CSV when 00..04 exist);
\* when all 100 names exist nothing is opened and the run halts.
TwoDigitName(nn) ==
    IF nn < 10 THEN "LOGGER0" \o ToString(nn) \o ".CSV"
    ELSE "LOGGER" \o ToString(nn) \o ".CSV"
C4_SmallestFreeName ==
    [][(pc = "createLogFile" /\ pc' \notin {"createLogFile", "setup"}) =>
          LET free == {nn \in 0 .. (NumNames - 1) :
                          TwoDigitName(nn) \notin DOMAIN card}
          IN IF free = {}
             THEN /\ pc' = "halted"
                  /\ obs'.halt = "Couldn't create file"
                  /\ ~logfile'.open
                  /\ card' = card
             ELSE LET nn == CHOOSE x \in free : \A y \in free : x <= y
                  IN /\ pc' = "sensors"
                     /\ logfile'.open
                     /\ logfile'.name = TwoDigitName(nn)
                     /\ DOMAIN card' = DOMAIN card \cup {TwoDigitName(nn)}
                     /\ (DOMAIN card = {"LOGGER00.CSV", "LOGGER01.CSV",
                                        "LOGGER02.CSV", "LOGGER03.CSV",
                                        "LOGGER04.CSV"}
                            => logfile'.name = "LOGGER05.CSV")
      ]_vars

\* The card held LOGGER00.CSV to LOGGER04.CSV and LOGGER05.CSV was opened.
C4_Witness ==
    /\ pc = "sensors"
    /\ DOMAIN obs.cardAtBoot = {"LOGGER00.CSV", "LOGGER01.CSV", "LOGGER02.CSV",
                                "LOGGER03.CSV", "LOGGER04.CSV"}
    /\ logfile.open
    /\ logfile.name = "LOGGER05.CSV"


\* The log cycles of the run so far are exactly LOG_INTERVAL apart.
Regular ==
    \A i \in 1 .. (Len(obs.marks) - 1) :
        U32Sub(obs.marks[i + 1], obs.marks[i]) = LOG_INTERVAL

C6_MillisNonDecreasing ==
    \A i \in 1 .. (Len(obs.recs) - 1) :
        U32Le(obs.recs[i].m, obs.recs[i + 1].m)

\* C6, amended: the millis field does not decrease from one record to the
\* next unless the 32-bit clock wrapped to 0 between the two; the first
\* record after a wrap carries a smaller value than the one before it.
C6_MillisNonDecreasingUntilWrap ==
    \A i \in 1 .. (Len(obs.recs) - 1) :
        /\ (obs.recs[i + 1].wraps = obs.recs[i].wraps) =>
              U32Le(obs.recs[i].m, obs.recs[i + 1].m)
        /\ (obs.recs[i + 1].wraps = obs.recs[i].wraps + 1) =>
              ~U32Le(obs.recs[i].m, obs.recs[i + 1].m)
        /\ obs.recs[i + 1].wraps <= obs.recs[i].wraps + 1

\* Records on both sides of the wrap, and one more after it.
C6_Witness ==
    /\ obs.wraps = 1
    /\ \E i \in 1 .. (Len(obs.recs) - 2) :
          /\ obs.recs[i].wraps = 0
          /\ obs.recs[i + 1].wraps = 1
          /\ obs.recs[i].m = -1296
          /\ obs.recs[i + 1].m \in {704, 705}
          /\ obs.recs[i + 2].m > obs.recs[i + 1].m

\* The record line of the cycle in progress: millis, Unix time, the quoted
\* date-time with unpadded components, then humidity, temperature and
\* pressure as read in this cycle, separated by ", ".
ExpectedLine ==
    PrintU32(m) \o ", " \o ToString(now.unix) \o ", " \o "\""
        \o ToString(now.year) \o "/" \o ToString(now.month) \o "/"
        \o ToString(now.day) \o " " \o ToString(now.hour) \o ":"
        \o ToString(now.minute) \o ":" \o ToString(now.second) \o "\"" \o ", "
        \o PrintFloat(Last(obs.samples)[1]) \o ", "
        \o PrintFloat(Last(obs.samples)[2]) \o ", "
        \o PrintFloat(Last(obs.samples)[3])

\* The cycle the claim gives as its example.
ExampleCycle ==
    /\ pc \in {"displayAverages", "resetAverages", "updateLCD"}
    /\ m = 4000
    /\ now = Time1
    /\ Last(obs.samples) = Sample1

\* A completed cycle appended exactly one line, the record of its values,
\* and flushed nothing; once setup() has returned the file holds the header
\* and one line per record.
OneLinePerCycle ==
    /\ (pc \in {"displayAverages", "resetAverages", "updateLCD"}) =>
          /\ logfile.data = [lines |-> Append(obs.pre.data.lines, ExpectedLine),
                             part |-> ""]
          /\ card = obs.pre.card
          /\ <<humidity, temperatureF, pressureKPA>> = Last(obs.samples)
    /\ (logfile.open /\ pc \notin {"sensors", "rtc", "header"}
           /\ obs.halt \notin {"MPL115A2 failed", "RTC failed"}) =>
          Len(logfile.data.lines) = Len(obs.recs) + 1

\* C7 as stated: every completed log cycle appends exactly one line with the
\* six fields in order and flushes nothing; the cycle with millis 4000, Unix
\* time 1700000000, 2023-11-14 10:00:00 and readings 45.2, 72.3, 101.3
\* appends `4000, 1700000000, "2023/11/14 10:0:0", 45.2, 72.3, 101.3`.
C7_RecordLine ==
    /\ OneLinePerCycle
    /\ ExampleCycle =>
          Last(logfile.data.lines)
              = "4000, 1700000000, \"2023/11/14 10:0:0\", 45.2, 72.3, 101.3"

\* C7, amended: as stated, with the three readings printed with two
\* decimals: the example cycle appends
\* `4000, 1700000000, "2023/11/14 10:0:0", 45.20, 72.30, 101.30`.
C7_RecordLineTwoDecimals ==
    /\ OneLinePerCycle
    /\ ExampleCycle =>
          Last(logfile.data.lines)
              = "4000, 1700000000, \"2023/11/14 10:0:0\", 45.20, 72.30, 101.30"

\* The example cycle has appended its line, after another record.
C7_Witness ==
    /\ ExampleCycle
    /\ pc = "updateLCD"
    /\ Len(obs.recs) = 2
    /\ Len(logfile.data.lines) = 3

\* C8 as stated: the millis fields of two consecutive records are at least
\* LOG_INTERVAL apart, however much the clock advances between statements.
C8_RecordsLogIntervalApart ==
    \A i \in 1 .. (Len(obs.recs) - 1) :
        U32Ge(U32Sub(obs.recs[i + 1].m, obs.recs[i].m), LOG_INTERVAL)

\* C8, amended: the lastLogTime marks of two consecutive log cycles are at
\* least LOG_INTERVAL apart; the millis fields of two consecutive records
\* are at least LOG_INTERVAL less the time that passed between the earlier
\* cycle's mark and its read of millis() in logData apart.
C8_MarksLogIntervalApart ==
    /\ \A i \in 1 .. (Len(obs.marks) - 1) :
          U32Ge(U32Sub(obs.marks[i + 1], obs.marks[i]), LOG_INTERVAL)
    /\ \A i \in 1 .. (Len(obs.recs) - 1) :
          /\ U32Ge(U32Sub(obs.recs[i + 1].mark, obs.recs[i].mark), LOG_INTERVAL)
          /\ U32Ge(U32Sub(obs.recs[i + 1].m, obs.recs[i].m)
                       + U32Sub(obs.recs[i].m, obs.recs[i].mark),
                   LOG_INTERVAL)

\* Two consecutive records whose millis fields are 1999 apart.
C8_Witness ==
    \E i \in 1 .. (Len(obs.recs) - 1) :
        /\ U32Sub(obs.recs[i + 1].m, obs.recs[i].m) = LOG_INTERVAL - 1
        /\ U32Sub(obs.recs[i].m, obs.recs[i].mark) = 1
        /\ U32Sub(obs.recs[i + 1].mark, obs.recs[i].mark) = LOG_INTERVAL

\* C9: a run creates at most one file and, once createLogFile has returned,
\* exactly one: a file whose name was not on the card when the run began,
\* so distinct from the file of every earlier run.  The files that were on
\* the card keep their content; the run changes no file but its own.  A run
\* halts in createLogFile only when no name is free.
C9_OneNewFilePerRun ==
    /\ obs.created <= 1
    /\ (pc \notin {"setup", "createLogFile"}
           /\ obs.halt \notin {"SD Card failed", "Couldn't create file"}) =>
          /\ obs.created = 1
          /\ logfile.open
          /\ logfile.name \notin DOMAIN obs.cardAtBoot
          /\ DOMAIN card = DOMAIN obs.cardAtBoot \cup {logfile.name}
    /\ (pc \in {"setup", "createLogFile"}
           \/ obs.halt \in {"SD Card failed", "Couldn't create file"}) =>
          /\ obs.created = 0
          /\ DOMAIN card = DOMAIN obs.cardAtBoot
    /\ \A n \in DOMAIN obs.cardAtBoot :
          n \in DOMAIN card /\ card[n] = obs.cardAtBoot[n]
    /\ (obs.halt = "Couldn't create file") =>
          \A nn \in 0 .. (NumNames - 1) : TwoDigitName(nn) \in DOMAIN obs.cardAtBoot

\* The second run on a card: it logs to LOGGER01.CSV, and LOGGER00.CSV holds
\* what the first run flushed.
C9_Witness ==
    /\ run = 2
    /\ obs.created = 1
    /\ logfile.name = "LOGGER01.CSV"
    /\ Len(obs.recs) >= 1
    /\ "LOGGER00.CSV" \in DOMAIN obs.cardAtBoot
    /\ Len(card["LOGGER00.CSV"].lines) > 2

\* The records no flush covers yet: the last lines of the log that are not
\* on the card.
Unflushed ==
    IF logfile.open /\ logfile.name \in DOMAIN card
    THEN LET n == Len(logfile.data.lines) - Len(card[logfile.name].lines)
             k == IF n < Len(obs.recs) THEN n ELSE Len(obs.recs)
         IN (Len(obs.recs) - k + 1) .. Len(obs.recs)
    ELSE {}

\* C10 as stated: while the run is not halted, every record not yet covered
\* by a flush was appended at most SYNC_INTERVAL ms ago.
C10_UnflushedWithinSyncInterval ==
    (pc # "halted") =>
        \A i \in Unflushed :
            ~U32Ge(U32Sub(clock, obs.recs[i].at), SYNC_INTERVAL + 1)

\* C10, amended: when the sync section of an iteration of loop() completes
\* (flush was called, or the check found less than SYNC_INTERVAL since
\* syncTime), every record not covered by a flush was appended less than
\* SYNC_INTERVAL before; at any other moment such a record is older by at
\* most the time since the sync section last completed.
C10_UnflushedWithinSyncIntervalAtCheck ==
    /\ \A i \in Unflushed :
          U32Sub(clock, obs.recs[i].at)
              < SYNC_INTERVAL + U32Sub(clock, obs.checked)
    /\ (pc = "buttonCheck") =>
          /\ obs.checked = clock
          /\ \A i \in Unflushed :
                ~U32Ge(U32Sub(clock, obs.recs[i].at), SYNC_INTERVAL)

\* A running sketch holds an unflushed record older than SYNC_INTERVAL.
C10_Witness ==
    /\ pc \notin {"halted", "setup"}
    /\ \E i \in Unflushed :
          U32Ge(U32Sub(clock, obs.recs[i].at), SYNC_INTERVAL + 1)

\* C11: readingsCount is within 0 .. AvgWindow in every state, and
\* displayAverages, which divides each sum by readingsCount, never runs
\* while readingsCount is 0.
C11_CountWithinWindow ==
    /\ readingsCount \in 0 .. AvgWindow
    /\ (pc = "displayAverages") => readingsCount # 0

\* displayAverages is about to divide by a full window's count.
C11_Witness ==
    /\ pc = "displayAverages"
    /\ readingsCount = AvgWindow
    /\ totalHumidity > 0

\* C12: the header line is written once per run, right after the log file
\* is opened, with no startup step that can halt in between: once a run has
\* left the startup steps that follow the open, by entering loop() or by
\* halting, the file it created has the header as its first line and
\* nowhere else.
C12_HeaderFirstLine ==
    (logfile.open /\ pc \notin {"sensors", "rtc", "header"}) =>
        /\ Len(logfile.data.lines) >= 1
        /\ logfile.data.lines[1] = Header
        /\ \A i \in 2 .. Len(logfile.data.lines) : logfile.data.lines[i] # Header

\* C13: each startup check is fatal.  A failed SD card, pressure sensor or
\* RTC check (RTC absent or stopped; a stopped RTC is set once with
\* rtc.adjust first) halts setup() with its message on the display, without
\* the header written and without loop() entered; loop() is reached only
\* when all three checks passed.
C13_StartupChecksFatal ==
    /\ (obs.startup.sd = "fail") =>
          /\ pc = "halted"
          /\ lcd = [BlankLcd EXCEPT ![0] = "Error: SD Card failed"]
          /\ ~logfile.open
    /\ (obs.startup.mpl = "fail") =>
          /\ pc = "halted"
          /\ lcd = [BlankLcd EXCEPT ![0] = "Error: MPL115A2 failed"]
    /\ (obs.startup.present = "fail" \/ obs.startup.running = "fail") =>
          /\ pc = "halted"
          /\ lcd = [BlankLcd EXCEPT ![0] = "Error: RTC failed"]
          /\ obs.adjusts = IF obs.startup.running = "fail" THEN 1 ELSE 0
    /\ ("fail" \in {obs.startup.sd, obs.startup.mpl, obs.startup.present,
                    obs.startup.running}) =>
          /\ logfile.data.lines = <<>>
          /\ obs.marks = <<>>
          /\ obs.recs = <<>>
    /\ (pc \in {"logCheck", "logMark", "logData", "readSensors", "logSensors",
                "displayAverages", "resetAverages", "updateLCD", "syncCheck",
                "syncMark", "flush", "buttonCheck"}
           \/ obs.marks # <<>>) =>
          /\ obs.startup = [sd |-> "ok", mpl |-> "ok", present |-> "ok",
                            running |-> "ok"]
          /\ obs.adjusts = 0
          /\ logfile.data.lines # <<>>
          /\ logfile.data.lines[1] = Header

\* A run halted by a stopped RTC, after the SD card and the pressure sensor
\* passed and rtc.adjust was called.
C13_Witness ==
    /\ pc = "halted"
    /\ obs.startup = [sd |-> "ok", mpl |-> "ok", present |-> "ok",
                      running |-> "fail"]
    /\ obs.adjusts = 1
    /\ lcd[0] = "Error: RTC failed"

\* C14: the halted state is absorbing.  Once error() has been entered, no step
\* of the same run changes anything the sketch owns or the card: nothing is
\* appended or flushed, the sums, readingsCount, both timer marks and the
\* display mode keep their values, and no loop iteration runs.
C14_HaltAbsorbing ==
    [][/\ (obs.halt # "") => (pc = "halted")
       /\ (obs.halt # "" /\ pc' # "setup") =>
             /\ UNCHANGED <<prog, card>>
             /\ obs' = obs]_vars

\* A run halted in the middle of a log cycle, with the button held down.
C14_Witness ==
    /\ pc = "halted"
    /\ obs.halt = "Failed to read from DHT sensor"
    /\ obs.marks # <<>>
    /\ button = "LOW"

\* Time left in the scenario for the sketch to run d ms further.
Room(d) == Elapsed + d <= env.horizon

C16_ChecksWrapSafe ==
    [][/\ (pc = "logCheck" /\ pc' \notin {"logCheck", "setup"}) =>
             ((pc' = "logMark") <=> (obs'.up - obs.logAt >= LOG_INTERVAL))
       /\ (pc = "syncCheck" /\ pc' \notin {"syncCheck", "setup"}) =>
             ((pc' = "syncMark") <=> (obs'.up - obs.syncAt >= SYNC_INTERVAL))
       /\ (pc' = "logData" /\ pc # "logData") => obs'.logAt = obs'.up
       /\ (pc' = "flush" /\ pc # "flush") => obs'.syncAt = obs'.up]_vars

\* A flush fired after the wrap on a mark set before it, in a run whose log
\* check has also fired across the wrap.
C16_Witness ==
    /\ pc = "syncMark"
    /\ syncTime < 0
    /\ clock >= 0
    /\ obs.wraps = 1
    /\ \E i \in 2 .. Len(obs.marks) : obs.marks[i - 1] < 0 /\ obs.marks[i] >= 0

\* C17: the display mode follows the presses of the button, one step of the
\* cycle of NumModes per press however long the button is held: the mode
\* has never been advanced more often than the button went from released to
\* pressed, and it is the number of advances modulo NumModes past mode 0.
C17_OneStepPerPress ==
    /\ obs.toggles <= presses
    /\ displayMode = obs.toggles % NumModes

\* C18: the three activities of loop() do not touch each other's state.  The
\* sync section (check, mark, flush) leaves lastLogTime, the readings, the
\* sums, readingsCount, the log content, the display and the display mode
\* unchanged; the log cycle (check, mark, logData and what it calls) leaves
\* syncTime and the card unchanged and calls no flush; the button check
\* leaves both timer marks, the readings, the sums, readingsCount, the log
\* and the card unchanged.
C18_ActivitiesIndependent ==
    [][/\ (pc \in {"syncCheck", "syncMark", "flush"}
             /\ pc' \notin {pc, "setup"}) =>
             /\ UNCHANGED <<lastLogTime, humidity, temperatureF, pressureKPA,
                            totalHumidity, totalTemperature, totalPressure,
                            readingsCount, m, now, logfile, lcd, displayMode>>
             /\ obs'.recs = obs.recs
             /\ obs'.marks = obs.marks
             /\ obs'.toggles = obs.toggles
       /\ (pc \in {"logCheck", "logMark", "logData", "readSensors",
                   "logSensors", "displayAverages", "resetAverages",
                   "updateLCD"}
             /\ pc' \notin {pc, "setup"}) =>
             /\ UNCHANGED <<syncTime, card, displayMode>>
             /\ obs'.flushes = obs.flushes
             /\ obs'.toggles = obs.toggles
       /\ (pc = "buttonCheck" /\ pc' \notin {pc, "setup"}) =>
             /\ UNCHANGED <<lastLogTime, syncTime, humidity, temperatureF,
                            pressureKPA, totalHumidity, totalTemperature,
                            totalPressure, readingsCount, m, now, logfile,
                            card>>
             /\ obs'.recs = obs.recs
             /\ obs'.marks = obs.marks
             /\ obs'.flushes = obs.flushes]_vars

\* The head of an iteration after a record was appended, the sync check ran
\* and the button check advanced the mode, the two timer marks differing.
C18_Witness ==
    /\ pc = "logCheck"
    /\ Len(obs.recs) >= 1
    /\ obs.toggles >= 1
    /\ displayMode # 0
    /\ readingsCount >= 1
    /\ lastLogTime # syncTime

\* C19: at the head of every iteration of loop() in a run that has not
\* halted, readingsCount is the number of complete records of the run modulo
\* AvgWindow, so below AvgWindow, and displayAverages has run once for every
\* AvgWindow records; it runs only right after a record whose number is a
\* multiple of AvgWindow.
C19_CountIsRecordsModWindow ==
    /\ (pc = "logCheck" /\ obs.halt = "") =>
          /\ readingsCount = Len(obs.recs) % AvgWindow
          /\ readingsCount \in 0 .. AvgWindow - 1
          /\ obs.shown = Len(obs.recs) \div AvgWindow
          /\ logfile.data.part = ""
          /\ Len(logfile.data.lines) = Len(obs.recs) + 1
    /\ (pc = "displayAverages") =>
          /\ Len(obs.recs) >= AvgWindow
          /\ Len(obs.recs) % AvgWindow = 0
          /\ obs.shown = (Len(obs.recs) \div AvgWindow) - 1
    /\ (pc # "displayAverages") =>
          obs.shown = Len(obs.recs) \div AvgWindow

\* The head of the iteration after the twentieth record: the averages were
\* shown twice and the count is back at 0.
C19_Witness ==
    /\ pc = "logCheck"
    /\ obs.halt = ""
    /\ Len(obs.recs) = 2 * AvgWindow
    /\ obs.shown = 2
    /\ readingsCount = 0

=============================================================================
